---------------------------- MODULE Spec2Model ----------------------------
(***************************************************************************)
(* simd-math-rs: periodic range reduction, integer power by squaring,      *)
(* Horner polynomial evaluation, and the exp / ln / sin / cos / atan /     *)
(* atan2 drivers built on them, in scalar and lane-parallel form.          *)
(*                                                                         *)
(* Every function of the crate is pure, so a behaviour is one call: an     *)
(* action draws the arguments, the function's steps run, and the result    *)
(* is left in ret.                                                         *)
(*                                                                         *)
(* Numbers.  An f64 is kept as an exact rational num/den in lowest terms   *)
(* with the sign of zero (nz) beside it.  The arguments are drawn from     *)
(* grids of doubles on which the comparisons and conversions of the code   *)
(* are decided exactly.  In the range reductions of exp, sin and cos the   *)
(* doubles are kept bit for bit: the constant 0.2, the doubles nearest     *)
(* decimal fractions and the double PI are a + b * 2^-54 or a + b * PI,    *)
(* and the quotient, product and difference are rounded to nearest-even    *)
(* as the hardware rounds them.  The values the polynomials and tables     *)
(* stand for are kept by what they approximate: powers of 2^(1/4) in ln,   *)
(* powers of exp(0.2) in exp, the sine table in sin and cos, angles by     *)
(* their tangent in atan.                                                  *)
(* An i32 is an integer in I32_MIN..I32_MAX, a u64 is its 64 bits, least   *)
(* significant first.                                                      *)
(***************************************************************************)
EXTENDS Integers, Sequences, FiniteSets, TLC

VARIABLES
    pc,     \* "idle", "loop", "done" or "abort" (a panic of the build)
    call,   \* the function being evaluated
    arg,    \* its arguments
    loc,    \* the locals of a running loop
    ret     \* its result

vars == <<pc, call, arg, loc, ret>>

----------------------------------------------------------------------------
(* i32 *)

I32_MAX == 2147483647
I32_MIN == -I32_MAX - 1

\* Bit i (0..31) of the two's complement pattern of an i32.
I32Bit(n, i) == IF i = 31 THEN (IF n < 0 THEN 1 ELSE 0)
                ELSE (n \div (2 ^ i)) % 2

U64IsZero(b) == \A i \in 1..64 : b[i] = 0

----------------------------------------------------------------------------
(* f64 *)

RECURSIVE GCD(_, _)
GCD(a, b) == IF b = 0 THEN a ELSE GCD(b, a % b)

IAbs(n) == IF n < 0 THEN -n ELSE n

\* The double num/den (den > 0), in lowest terms; a zero it yields is +0.0.
F(num, den) ==
    LET g == GCD(IAbs(num), den)
    IN  [num |-> num \div g, den |-> den \div g, nz |-> FALSE]

NegZero == [num |-> 0, den |-> 1, nz |-> TRUE]
Zero == F(0, 1)
One == F(1, 1)
Two == F(2, 1)
Half == F(1, 2)

\* A finite double of magnitude 2^32 or more: only its sign is kept.
Huge(neg) == [huge |-> TRUE, neg |-> neg]
IsHuge(x) == "huge" \in DOMAIN x

\* The sign bit.
SignBit(x) == IF IsHuge(x) THEN x.neg ELSE x.num < 0 \/ (x.num = 0 /\ x.nz)

IsZero(x) == ~IsHuge(x) /\ x.num = 0

\* A zero of the given sign bit.
SignedZero(neg) == IF neg THEN NegZero ELSE Zero

FNeg(x) == IF x.num = 0 THEN SignedZero(~x.nz)
           ELSE [num |-> -x.num, den |-> x.den, nz |-> FALSE]

\* f64::abs
FAbs(x) == [num |-> IAbs(x.num), den |-> x.den, nz |-> FALSE]

\* f64::copysign: the magnitude of x with the sign bit of s.
copysign(x, s) == IF SignBit(s) THEN FNeg(FAbs(x)) ELSE FAbs(x)

\* x + y.  An exact zero sum is +0.0 unless both operands are -0.0; a Huge
\* operand absorbs an addend of its own sign.
FAdd(x, y) ==
    IF IsHuge(x) THEN x
    ELSE LET n == x.num * y.den + y.num * x.den
         IN  IF n = 0 THEN SignedZero(SignBit(x) /\ SignBit(y))
             ELSE F(n, x.den * y.den)

FSub(x, y) == FAdd(x, FNeg(y))

\* The doubles of exp.rs that are no rationals: q * exp_pt1(u) * EXP_PT2^e
\* with q a rational, exp_pt1(u) the value of the polynomial at u (present
\* when has is set) and EXP_PT2 the double nearest exp(0.2).
Sym(q, has, u, e) == [q |-> q, has |-> has, u |-> u, e |-> e]
IsSym(x) == "e" \in DOMAIN x
AsSym(x) == IF IsSym(x) THEN x ELSE Sym(x, FALSE, [num |-> 0, den |-> 1, nz |-> FALSE], 0)

\* x * y; a zero product carries the exclusive or of the sign bits.  Of
\* the doubles of exp.rs at most one has a polynomial factor, and a product
\* with no polynomial factor and no power of EXP_PT2 left is the rational
\* itself.
FMul(x, y) ==
    IF IsSym(x) \/ IsSym(y)
    THEN LET mul(sx, sy, q) ==
                 IF ~(sx.has \/ sy.has) /\ sx.e + sy.e = 0 THEN q
                 ELSE Sym(q, sx.has \/ sy.has, IF sx.has THEN sx.u ELSE sy.u,
                          sx.e + sy.e)
         IN  mul(AsSym(x), AsSym(y),
                 F(AsSym(x).q.num * AsSym(y).q.num, AsSym(x).q.den * AsSym(y).q.den))
    ELSE IF x.num = 0 \/ y.num = 0 THEN SignedZero(SignBit(x) # SignBit(y))
    ELSE F(x.num * y.num, x.den * y.den)

\* x / y for y # 0.  The operands are cancelled crosswise first; an integer
\* quotient of magnitude 2^32 or more is Huge.
FDiv(x, y) ==
    IF x.num = 0 THEN SignedZero(SignBit(x) # SignBit(y))
    ELSE LET g1 == GCD(IAbs(x.num), IAbs(y.num))
             g2 == GCD(y.den, x.den)
             p1 == IAbs(x.num) \div g1
             p2 == y.den \div g2
             d  == (x.den \div g2) * (IAbs(y.num) \div g1)
             neg == SignBit(x) # SignBit(y)
         IN  IF d = 1 /\ p1 \div 2 > I32_MAX \div p2 THEN Huge(neg)
             ELSE F((IF neg THEN -1 ELSE 1) * p1 * p2, d)

\* f64::recip; that of a power of EXP_PT2 is the power of the opposite
\* exponent.
recip(x) ==
    IF IsSym(x)
    THEN Sym(F(x.q.den * (IF x.q.num < 0 THEN -1 ELSE 1), IAbs(x.q.num)),
             x.has, x.u, -x.e)
    ELSE FDiv(One, x)

\* f64::mul_add(self, a, b) = self * a + b with one rounding.
mul_add(x, a, b) == FAdd(FMul(x, a), b)

FLt(x, y) == x.num * y.den < y.num * x.den
FLe(x, y) == x.num * y.den <= y.num * x.den

\* n as f64
FromInt(n) == F(n, 1)

\* An i32 that is not determined: any of the 2^32 values.
AnyI32 == [any_i32 |-> TRUE]

\* f64::to_int_unchecked::<i32>: the set of values the conversion may yield;
\* within the range, the integer part (rounding toward zero).  For a value
\* whose integer part is not an i32 the conversion is undefined behaviour
\* and may yield any i32, whatever the sign of the value: a conversion at
\* run time leaves the "integer indefinite" I32_MIN (cvttsd2si), saturates
\* (fcvtzs) or keeps the low 32 bits of a 64-bit conversion; an optimised
\* build that sees the operand folds the conversion to an undefined value
\* that changes from run to run (0, 1, 4, 32765, 32766, 32767, 808529231,
\* -1139552928, ... have been printed).  No value is excluded, so the
\* outcomes are kept as the one token AnyI32 and nothing is computed from
\* it.  Of a double known by bounds lo <= q <= hi only, the conversion
\* yields one of the integer parts between those of the bounds; the integer
\* part of a + b * 2^-54 is that of a, but for an integer a with b drawing
\* toward zero, where it is the integer before.
to_int_unchecked(q) ==
    LET int(v) == IF v.num >= 0 THEN v.num \div v.den ELSE -((-v.num) \div v.den)
    IN  IF IsHuge(q) THEN {AnyI32}
        ELSE IF "lo" \in DOMAIN q THEN int(q.lo)..int(q.hi)
        ELSE IF "unit" \in DOMAIN q
        THEN {IF q.a.den = 1 /\ q.a.num > 0 /\ q.b.num < 0 THEN q.a.num - 1
              ELSE IF q.a.den = 1 /\ q.a.num < 0 /\ q.b.num > 0 THEN q.a.num + 1
              ELSE int(q.a)}
        ELSE {int(q)}

\* Whether the value converted is outside the i32 range.
OutOfI32(q) == IsHuge(q)

\* A double the model does not follow (computed from an undefined quotient).
Untracked == [untracked |-> TRUE]

FEq(x, y) == x.num * y.den = y.num * x.den

\* x^k for k >= 0, by its definition.
RECURSIVE NatPower(_, _)
NatPower(x, k) == IF k = 0 THEN One ELSE FMul(x, NatPower(x, k - 1))

\* x^n for x # 0 and any integer n; the powers of 1 and -1 by parity.
Power(x, n) ==
    IF FEq(FAbs(x), One) THEN (IF n % 2 = 0 THEN One ELSE x)
    ELSE IF n >= 0 THEN NatPower(x, n)
    ELSE FDiv(One, NatPower(x, -n))

\* floor(log2 x) of a positive double.
RECURSIVE Log2Floor(_)
Log2Floor(x) ==
    IF FLe(Two, x) THEN Log2Floor(FMul(x, Half)) + 1
    ELSE IF FLt(x, One) THEN Log2Floor(FMul(x, Two)) - 1
    ELSE 0

\* The doubles that are no short rationals, kept exactly as a + b * c with
\* a and b rationals and c one of two constants: "eta", for 2^-54, and
\* "pi", for the double PI = 884279719003555 * 2^-48.  The double 0.2 is
\* 3602879701896397 * 2^-54, and 5 * 3602879701896397 = 2^54 + 1, so that
\* 0.2 = 1/5 + 1/5 * 2^-54.  With b = 0 the double is the rational a.
Lin(a, b, unit) ==
    IF b.num = 0 THEN a
    ELSE [a |-> IF a.num = 0 THEN [num |-> 0, den |-> 1, nz |-> FALSE] ELSE a,
          b |-> b, unit |-> unit]
IsLin(x) == "unit" \in DOMAIN x

\* The bounds lo <= x <= hi the bracket 333/106 < PI < 355/113 gives for
\* x = a + b * PI.
Encl(x) ==
    LET at(p) == FAdd(x.a, FMul(x.b, p))
        ordered(v1, v2) == IF FLe(v1, v2) THEN [lo |-> v1, hi |-> v2]
                           ELSE [lo |-> v2, hi |-> v1]
    IN  ordered(at(F(333, 106)), at(F(355, 113)))

\* Rounding to the nearest double, ties to even: the double nearest
\* v + c * 2^-54, for v = s * w, w = P / (2^t * D) with D odd, and
\* |c| * 2^-54 far below w.  With 2^e <= |v + c * 2^-54| < 2^(e + 1) the
\* doubles around are the multiples of 2^(e - 52) = U * 2^-54, U = 2^(e + 2);
\* w is Q + rho / D of them, rho = P * 2^(52 - e - t) mod D, and Q has the
\* parity of rho.  The sum is then Q + g of them, g = rho / D + s * c / U,
\* and the double is Q + r with r the integer nearest g: fl, the integer
\* part of g, or fl + 1, by the fraction fr = g - fl.  When c stands for the
\* first term of a series only (exact is FALSE), a tie of g cannot be told
\* and the double is not followed.
RoundEta(v, c, exact) ==
    LET odd[d \in Nat] == IF d % 2 = 1 THEN d ELSE odd[d \div 2]
        nearest(s, rho, D, U, fl, fr) ==
            IF FEq(fr, Half) /\ ~exact THEN Untracked
            ELSE LET r == IF FLt(fr, Half) THEN fl
                          ELSE IF FLt(Half, fr) THEN fl + 1
                          ELSE IF (rho + fl) % 2 = 0 THEN fl ELSE fl + 1
                 IN  Lin(v, FMul(F(s, 1), FMul(FSub(F(r, 1), F(rho, D)), U)), "eta")
        split(s, rho, D, U, g, fl) == nearest(s, rho, D, U, fl, FSub(g, F(fl, 1)))
        ulps(s, rho, D, U, g) == split(s, rho, D, U, g, g.num \div g.den)
        sum(s, cc, rho, D, U) == ulps(s, rho, D, U, FAdd(F(rho, D), FDiv(cc, U)))
        rest(s, w, cc, e, D) ==
            LET pm[k \in Nat] == IF k = 0 THEN 1 % D ELSE (2 * pm[k - 1]) % D
            IN  sum(s, cc, ((w.num % D) * pm[52 - e - Log2Floor(F(w.den \div D, 1))]) % D,
                    D, Power(Two, e + 2))
        binade(s, w, cc, e0) ==
            rest(s, w, cc,
                 IF FEq(w, Power(Two, e0)) /\ cc.num < 0 THEN e0 - 1 ELSE e0,
                 odd[w.den])
        signed(s) == binade(s, FAbs(v), F(s * c.num, c.den), Log2Floor(FAbs(v)))
    IN  IF v.num = 0 THEN Lin(v, c, "eta")
        ELSE signed(IF v.num < 0 THEN -1 ELSE 1)

\* -x
DblNeg(x) ==
    IF IsLin(x) THEN Lin(FNeg(x.a), FNeg(x.b), x.unit) ELSE FNeg(x)

\* x + y.  A sum of short rationals is exact.  With 0.2 in it the sum is
\* rounded.  With PI in it: PI is 884279719003555 * 2^-48 with an odd
\* numerator, so a + b * PI with 4 b an integer and a a multiple of 2^-49
\* is a multiple of 2^-50, and a double when below 8 in magnitude; beyond,
\* the sum is not followed.  A bracketed quotient takes the addend at both
\* of its ends.
DblAdd(x, y) ==
    LET within(s, iv) ==
            IF FLt(F(-8, 1), iv.lo) /\ FLt(iv.hi, F(8, 1)) THEN s ELSE Untracked
        exact(s) == IF ~IsLin(s) THEN s ELSE within(s, Encl(s))
        sum(a, b, unit) ==
            IF unit = "eta" THEN RoundEta(a, b, TRUE) ELSE exact(Lin(a, b, "pi"))
    IN  IF "lo" \in DOMAIN x THEN [lo |-> FAdd(x.lo, y), hi |-> FAdd(x.hi, y)]
        ELSE IF ~IsLin(x) /\ ~IsLin(y) THEN FAdd(x, y)
        ELSE sum(FAdd(IF IsLin(x) THEN x.a ELSE x, IF IsLin(y) THEN y.a ELSE y),
                 FAdd(IF IsLin(x) THEN x.b ELSE Zero, IF IsLin(y) THEN y.b ELSE Zero),
                 IF IsLin(x) THEN x.unit ELSE y.unit)

\* x * y for x an integer.  The product with 0.2 is rounded; k / 2 * PI is
\* k * 884279719003555 * 2^-49, a double for |k| <= 10, and is not followed
\* beyond.
DblMul(x, y) ==
    LET scaled(a, b) ==
            IF y.unit = "eta" THEN RoundEta(a, b, TRUE)
            ELSE IF FLe(FAbs(b), F(5, 1)) THEN Lin(a, b, "pi")
            ELSE Untracked
    IN  IF ~IsLin(y) THEN FMul(x, y) ELSE scaled(FMul(x, y.a), FMul(x, y.b))

\* x / y.  By a + b * 2^-54 the quotient of xa + xb * 2^-54 is xa / a plus
\* (xb / a - xa * b / a^2) * 2^-54 and terms of the order of 2^-108,
\* rounded.  By a
\* multiple d * PI of PI: the quotient of b * PI is b / d; that of
\* a + b * PI, a /= 0, is no rational, and the rounded quotient is kept by
\* the bounds 333/106 < PI < 355/113 give for b / d + a / (d * PI) (rounding
\* is monotone, and takes no bound of so short a fraction across an
\* integer).
DblDiv(x, y) ==
    LET at(p) == FAdd(FDiv(IF IsLin(x) THEN x.b ELSE Zero, y.b),
                      FDiv(IF IsLin(x) THEN x.a ELSE x, FMul(y.b, p)))
        ordered(v1, v2) == IF FLe(v1, v2) THEN [lo |-> v1, hi |-> v2]
                           ELSE [lo |-> v2, hi |-> v1]
    IN  IF ~IsLin(y) THEN FDiv(x, y)
        ELSE IF ~IsLin(x) /\ x.num = 0
        THEN FDiv(x, IF y.unit = "eta" THEN y.a ELSE y.b)
        ELSE IF y.unit = "eta"
        THEN RoundEta(FDiv(IF IsLin(x) THEN x.a ELSE x, y.a),
                      FSub(FDiv(IF IsLin(x) THEN x.b ELSE Zero, y.a),
                           FDiv(FMul(IF IsLin(x) THEN x.a ELSE x, y.b),
                                FMul(y.a, y.a))),
                      FALSE)
        ELSE IF IsLin(x) /\ x.a.num = 0 THEN FDiv(x.b, y.b)
        ELSE ordered(at(F(333, 106)), at(F(355, 113)))

----------------------------------------------------------------------------
(* util.rs: periodic_clamp *)

\* Mutant: the half is left out, so the conversion truncates x / a.
ClampQuot_NoHalf(x, a) == DblDiv(x, a)

\* Mutant: the half is added whatever the sign of x.
ClampQuot_HalfUp(x, a) == DblAdd(DblDiv(x, a), Half)

\* The value handed to the conversion: x / a + 0.5 * x.signum(), signum
\* being 1.0 for a clear sign bit (+0.0 included) and -1.0 for a set one.
\* The sign of a + b * PI is that of its bounds, the sign of a + b * 2^-54
\* that of a.
ClampQuot(x, a) ==
    DblAdd(DblDiv(x, a),
           FMul(Half, IF SignBit(IF ~IsLin(x) THEN x
                                 ELSE IF x.unit = "pi" THEN Encl(x).lo ELSE x.a)
                      THEN F(-1, 1) ELSE One))

\* x - (n as f64) * a
ClampRem(x, a, n) == DblAdd(x, DblNeg(DblMul(FromInt(n), a)))

\* periodic_clamp(x, a): the set of results (r, n) it may return.
periodic_clamp(x, a) ==
    LET converted(q) ==
            { [r |-> IF OutOfI32(q) THEN Untracked ELSE ClampRem(x, a, n), n |-> n]
                : n \in to_int_unchecked(q) }
    IN  converted(ClampQuot(x, a))

\* periodic_clamp_simd(x, a), lane i: the conversion acts on each lane alone,
\* and 0.5 takes the lane's sign by copysign.
ClampQuotLane(x, a) ==
    DblAdd(DblDiv(x, a),
           copysign(Half, IF ~IsLin(x) THEN x
                          ELSE IF x.unit = "pi" THEN Encl(x).lo ELSE x.a))

\* The lane vectors of length k the conversion of the lanes of q may yield.
RECURSIVE ClampLaneInts(_, _)
ClampLaneInts(q, k) ==
    IF k = 0 THEN {<< >>}
    ELSE {Append(p, n) : p \in ClampLaneInts(q, k - 1),
                         n \in to_int_unchecked(q[k])}

\* periodic_clamp_simd(x, a): the set of results (r, n) it may return, each
\* a pair of lane vectors.
periodic_clamp_simd(x, a) ==
    LET converted(q) ==
            { [rs |-> [i \in DOMAIN x |-> IF OutOfI32(q[i]) THEN Untracked
                                          ELSE ClampRem(x[i], a, n[i])],
               ns |-> n] : n \in ClampLaneInts(q, Len(x)) }
    IN  converted([i \in DOMAIN x |-> ClampQuotLane(x[i], a)])

----------------------------------------------------------------------------
(* util.rs: powi, powi_simd *)

\* The outcomes of a call: a value returned, a panic of a build with
\* overflow checks, or a loop that never ends.
Returned(v) == [kind |-> "returned", v |-> v]
Aborts == [kind |-> "abort"]

\* Mutant: the base of a negative exponent is not inverted.
PowiEntry_NoRecip(x, n, absn) == [x |-> x, n |-> absn, acc |-> One]

\* The locals on entry to the loop, absn being what n.abs() gave:
\* x = if n < 0 { x.recip() } else { x }, n = n.abs(), acc = 1.0.
PowiEntry(x, n, absn) ==
    [x |-> IF n < 0 THEN recip(x) ELSE x, n |-> absn, acc |-> One]

\* One pass of the loop body on i32 n: n & 1 is the low bit of the two's
\* complement pattern, n >>= 1 the arithmetic shift.
PowiBody(l) ==
    [x   |-> FMul(l.x, l.x),
     n   |-> l.n \div 2,
     acc |-> IF l.n % 2 # 0 THEN FMul(l.acc, l.x) ELSE l.acc]

\* while n != 0 { body }; acc.  An arithmetic shift keeps a negative n
\* negative, so from a negative n the loop never reaches n = 0.
RECURSIVE powi_loop(_)
powi_loop(l) ==
    IF l.n = 0 THEN Returned(l.acc)
    ELSE IF l.n < 0 THEN [kind |-> "diverges"]
    ELSE powi_loop(PowiBody(l))

\* i32::abs: the set of outcomes.  i32::MIN has no absolute value in i32: a
\* build with overflow checks panics, one without returns i32::MIN.
I32Abs(n) ==
    IF n = I32_MIN THEN {[panic |-> TRUE, v |-> 0], [panic |-> FALSE, v |-> I32_MIN]}
    ELSE {[panic |-> FALSE, v |-> IAbs(n)]}

\* powi(x, n): the set of outcomes of the call.
powi(x, n) ==
    { IF a.panic THEN Aborts ELSE powi_loop(PowiEntry(x, n, a.v))
        : a \in I32Abs(n) }

\* The locals of powi_simd on entry to its loop.  SimdInt::abs is wrapping
\* in every build; the cast to u64 sign-extends, and the u64 is kept as its
\* 64 bits, least significant first.
PowiSimdEntry(x, n) ==
    LET as_u64(m) == [i \in 1..64 |-> IF i <= 32 THEN I32Bit(m, i - 1)
                                      ELSE (IF m < 0 THEN 1 ELSE 0)]
    IN  [xs   |-> [i \in DOMAIN x |-> IF n[i] < 0 THEN recip(x[i]) ELSE x[i]],
         ns   |-> [i \in DOMAIN x |-> as_u64(IF n[i] = I32_MIN THEN I32_MIN
                                             ELSE IAbs(n[i]))],
         accs |-> [i \in DOMAIN x |-> One]]

\* One pass of the loop body of powi_simd: the mask (n & 1) == 0 selects acc,
\* the other lanes take acc * x; every lane squares x and shifts n.
PowiSimdBody(l) ==
    [xs   |-> [i \in DOMAIN l.xs |-> FMul(l.xs[i], l.xs[i])],
     ns   |-> [i \in DOMAIN l.xs |->
                 [k \in 1..64 |-> IF k < 64 THEN l.ns[i][k + 1] ELSE 0]],
     accs |-> [i \in DOMAIN l.xs |->
                 IF l.ns[i][1] = 0 THEN l.accs[i]
                 ELSE FMul(l.accs[i], l.xs[i])]]

\* n.simd_eq(Simd::splat(0)).all()
PowiSimdAllZero(l) == \A i \in DOMAIN l.ns : U64IsZero(l.ns[i])

----------------------------------------------------------------------------
(* util.rs: polyval, polyval_simd *)

\* Mutant: the table is read lowest-order coefficient first.
RECURSIVE PolyFold_LowFirst(_, _, _, _)
PolyFold_LowFirst(cs, x, i, acc) ==
    IF i > Len(cs) THEN acc
    ELSE PolyFold_LowFirst(cs, x, i + 1, mul_add(x, acc, cs[Len(cs) + 1 - i]))

\* for &c in &cs[1..] { acc = x.mul_add(acc, c) }, from the i-th entry on
\* (the table is 1-based here: cs[1] is the code's cs[0]).
RECURSIVE PolyFold(_, _, _, _)
PolyFold(cs, x, i, acc) ==
    IF i > Len(cs) THEN acc
    ELSE PolyFold(cs, x, i + 1, mul_add(x, acc, cs[i]))

\* polyval(cs, x): acc = cs[0], then the fold over the rest.
polyval(cs, x) == PolyFold(cs, x, 2, cs[1])

\* polyval_simd(cs, x): acc = splat(cs[0]), the same fold in every lane.
polyval_simd(cs, x) == [i \in DOMAIN x |-> PolyFold(cs, x[i], 2, cs[1])]

----------------------------------------------------------------------------
(* log.rs: fake_log2, ln, ln_simd *)

EXP_BIAS == 1023

\* (bits & MASK) >> 52: the biased exponent field of a positive normal double.
ExponentField(x) == Log2Floor(x) + EXP_BIAS

\* fake_log2: (exp2 - 1023) as i32, the subtraction being one of u64.  Below
\* the bias it overflows: a build with overflow checks panics, one without
\* wraps, and the cast keeps the low 32 bits, the negative difference.
fake_log2(x) ==
    LET exp2 == ExponentField(x)
    IN  IF exp2 < EXP_BIAS
        THEN {[panic |-> TRUE, v |-> 0], [panic |-> FALSE, v |-> exp2 - EXP_BIAS]}
        ELSE {[panic |-> FALSE, v |-> exp2 - EXP_BIAS]}

\* fake_log2_simd, one lane: the vector subtraction wraps in every build.
fake_log2_lane(x) == ExponentField(x) - EXP_BIAS

\* The doubles of ln are kept as q * 2^(e4 / 4), q an exact rational: the
\* constants SQRT2, SQRT2_INV, TWOPOW4TH and TWOPOW4TH_INV are the doubles
\* nearest 2^(1/2), 2^(-1/2), 2^(1/4) and 2^(-1/4), and are kept as these
\* powers.
LnVal(q, e4) == [q |-> q, e4 |-> e4]

SQRT2 == LnVal(One, 2)
SQRT2_INV == LnVal(One, -2)
TWOPOW4TH == LnVal(One, 1)
TWOPOW4TH_INV == LnVal(One, -1)

LnMul(v, c) == LnVal(FMul(v.q, c.q), v.e4 + c.e4)

\* v > 1.0, by the fourth powers: q^4 * 2^e4 > 1 for q > 0.
GtOne(v) ==
    /\ v.q.num > 0
    /\ IF v.e4 >= 0
       THEN (v.q.num ^ 4) * (2 ^ v.e4) > v.q.den ^ 4
       ELSE v.q.num ^ 4 > (v.q.den ^ 4) * (2 ^ (-v.e4))

\* Mutant: the power is taken at the exponent negated.
StdPowiTwo_Negated(n) == Power(Two, -n)

\* f64::powi of the standard library on the base 2.0: exact.
StdPowiTwo(n) == Power(Two, n)

\* A sum of ln: the value of the table TAYLOR (f(t) = ln(t + 1), fitted on
\* the domain (2^(-1/4) - 1, 2^(1/4) - 1)) at t = at - 1.0 when has is set,
\* plus the logarithm of log.  The constants LN2, LNSQRT2 and LN2POW4TH are
\* the doubles nearest ln 2, ln 2^(1/2) and ln 2^(1/4), and are kept as
\* these logarithms.  How near the table's value is to the logarithm of at
\* is not followed.
LogVal(has, at, log) == [has |-> has, at |-> at, log |-> log]

LN2 == LogVal(FALSE, LnVal(One, 0), LnVal(Two, 0))
LNSQRT2 == LogVal(FALSE, LnVal(One, 0), LnVal(One, 2))
LN2POW4TH == LogVal(FALSE, LnVal(One, 0), LnVal(One, 1))

\* k * l for an integer k (n as f64, or a flag 1.0 or -1.0) and l one of
\* the constants
LogScale(k, l) ==
    LogVal(l.has, l.at, LnVal(Power(l.log.q, k), l.log.e4 * k))

\* l + m, at most one of them with a value of the table
LogAdd(l, m) ==
    LogVal(l.has \/ m.has, IF l.has THEN l.at ELSE m.at, LnMul(l.log, m.log))

\* polyval(&TAYLOR, v - 1.0)
LnPolyval(v) == LogVal(TRUE, v, LnVal(One, 0))

\* Mutant: the constants of the two folds are exchanged.
LnSum_Exchanged(p, n, nsq2, n2p4) ==
    LogAdd(LogAdd(LogAdd(p, LogScale(n, LN2)),
                  LogScale(nsq2.num, LN2POW4TH)),
           LogScale(n2p4.num, LNSQRT2))

\* polyval(..) + (n as f64) * LN2 + nsq2 * LNSQRT2 + n2p4 * LN2POW4TH
LnSum(p, n, nsq2, n2p4) ==
    LogAdd(LogAdd(LogAdd(p, LogScale(n, LN2)),
                  LogScale(nsq2.num, LNSQRT2)),
           LogScale(n2p4.num, LN2POW4TH))

\* The body of ln from the coarse exponent n0 on: the exponent n kept, the
\* sign flag and the factor of each fold, the folded value xp (the
\* polynomial is evaluated at xp - 1.0) and the value v returned.
LnFrom(x, n0) ==
    LET n  == IF n0 < 0 THEN n0 + 1 ELSE n0
        x1 == LnVal(FMul(x, StdPowiTwo(-n)), 0)
        g1 == GtOne(x1)
        nsq2 == IF g1 THEN One ELSE F(-1, 1)
        fsq2 == IF g1 THEN SQRT2_INV ELSE SQRT2
        x2 == LnMul(x1, fsq2)
        g2 == GtOne(x2)
        n2p4 == IF g2 THEN One ELSE F(-1, 1)
        f2p4 == IF g2 THEN TWOPOW4TH_INV ELSE TWOPOW4TH
        x3 == LnMul(x2, f2p4)
    IN  [n |-> n, x1 |-> x1, nsq2 |-> nsq2, fsq2 |-> fsq2,
         n2p4 |-> n2p4, f2p4 |-> f2p4, xp |-> x3,
         v |-> LnSum(LnPolyval(x3), n, nsq2, n2p4)]

\* ln(x): the set of outcomes of the call.
ln(x) == { IF e.panic THEN Aborts ELSE Returned(LnFrom(x, e.v)) : e \in fake_log2(x) }

\* powi_simd(x, n) run to its end: the u64 exponents are shifted to zero
\* within 64 passes.
RECURSIVE powi_simd_loop(_)
powi_simd_loop(l) ==
    IF PowiSimdAllZero(l) THEN l.accs ELSE powi_simd_loop(PowiSimdBody(l))

powi_simd(x, n) == powi_simd_loop(PowiSimdEntry(x, n))

\* ln_simd(x): per lane what LnFrom keeps, v being the lane returned.  The
\* flag of a fold is 1.0.copysign(x) and its factor is selected by
\* x.is_sign_positive().
ln_simd(x) ==
    LET Lns == DOMAIN x
        n0 == [i \in Lns |-> fake_log2_lane(x[i])]
        n  == [i \in Lns |-> IF n0[i] < 0 THEN n0[i] + 1 ELSE n0[i]]
        p  == powi_simd([i \in Lns |-> Two], [i \in Lns |-> -n[i]])
        x1 == [i \in Lns |-> LnVal(FMul(x[i], p[i]), 0)]
        nsq2 == [i \in Lns |-> copysign(One, x1[i].q)]
        fsq2 == [i \in Lns |-> IF ~SignBit(x1[i].q) THEN SQRT2_INV ELSE SQRT2]
        x2 == [i \in Lns |-> LnMul(x1[i], fsq2[i])]
        n2p4 == [i \in Lns |-> copysign(One, x2[i].q)]
        f2p4 == [i \in Lns |-> IF ~SignBit(x2[i].q) THEN TWOPOW4TH_INV
                               ELSE TWOPOW4TH]
        x3 == [i \in Lns |-> LnMul(x2[i], f2p4[i])]
    IN  [i \in Lns |->
           [n |-> n[i], x1 |-> x1[i], nsq2 |-> nsq2[i], fsq2 |-> fsq2[i],
            n2p4 |-> n2p4[i], f2p4 |-> f2p4[i], xp |-> x3[i],
            v |-> LnSum(LnPolyval(x3[i]), n[i], nsq2[i], n2p4[i])]]

----------------------------------------------------------------------------
(* invtrig.rs: atan, atan_simd *)

\* An angle of atan is kept by its tangent, an exact rational: the table
\* TAYLOR (domain 0 <= x <= 0.25) stands for the arctangent it approximates,
\* and TAN_4, TAN_2, TAN_1 are the doubles nearest atan(1/4), atan(1/2),
\* atan(1).  Every angle met lies strictly between -pi/2 and pi/2, where it
\* has the sign of its tangent.
Ang(t) == [tan |-> t]

\* Mutant: the constant of the third fold is atan(2^-3).
TAN_4_Shifted == Ang(F(1, 8))

TAN_4 == Ang(F(1, 4))
TAN_2 == Ang(Half)
TAN_1 == Ang(One)

\* polyval(&TAYLOR, x)
AtanPoly(x) == Ang(x)

\* p.copysign(s) of an angle p
AngCopysign(p, s) == Ang(copysign(p.tan, s))

\* p + q of two angles whose sum lies between -pi/2 and pi/2.
AngAdd(p, q) == Ang(FDiv(FAdd(p.tan, q.tan), FSub(One, FMul(p.tan, q.tan))))

AngNeg(p) == Ang(FNeg(p.tan))

\* Mutant: f2 is 2^n.
AtanS_PlusN(x, n) ==
    LET f2 == StdPowiTwo(n)
    IN  FDiv(FSub(x, f2), FAdd(One, FMul(f2, x)))

\* fn s(x, n): f2 = 2f64.powi(-n); (x - f2) / (1.0 + f2 * x)
AtanS(x, n) ==
    LET f2 == StdPowiTwo(-n)
    IN  FDiv(FSub(x, f2), FAdd(One, FMul(f2, x)))

\* Mutant: the sign of the argument is not copied onto the result.
AtanP0_NoSign(p1, s0) == p1

\* let p0 = p1.copysign(s0)
AtanP0(p1, s0) == AngCopysign(p1, s0)

\* atan(x): every local of the function; p0 is the value returned.
atan(x) ==
    LET s0 == x
        x0 == FAbs(s0)
        s1 == AtanS(x0, 0)
        x1 == FAbs(s1)
        s2 == AtanS(x1, 1)
        x2 == FAbs(s2)
        s3 == AtanS(x2, 2)
        x3 == FAbs(s3)
        atx3 == AtanPoly(x3)
        p3 == AngAdd(AngCopysign(atx3, s3), TAN_4)
        p2 == AngAdd(AngCopysign(p3, s2), TAN_2)
        p1 == AngAdd(AngCopysign(p2, s1), TAN_1)
        p0 == AtanP0(p1, s0)
    IN  [s0 |-> s0, s1 |-> s1, s2 |-> s2, s3 |-> s3,
         x1 |-> x1, x2 |-> x2, x3 |-> x3,
         p3 |-> p3, p2 |-> p2, p1 |-> p1, p0 |-> p0]

\* atan_simd(x): the locals of every lane; the closure s is fn s of atan
\* on splat(2f64.powi(-n)).
atan_simd(x) ==
    [i \in DOMAIN x |->
        LET s0 == x[i]
            x0 == FAbs(s0)
            s1 == AtanS(x0, 0)
            x1 == FAbs(s1)
            s2 == AtanS(x1, 1)
            x2 == FAbs(s2)
            s3 == AtanS(x2, 2)
            x3 == FAbs(s3)
            atx3 == AtanPoly(x3)
            p3 == AngAdd(AngCopysign(atx3, s3), TAN_4)
            p2 == AngAdd(AngCopysign(p3, s2), TAN_2)
            p1 == AngAdd(AngCopysign(p2, s1), TAN_1)
            p0 == AngCopysign(p1, s0)
        IN  [s0 |-> s0, s1 |-> s1, s2 |-> s2, s3 |-> s3,
             x1 |-> x1, x2 |-> x2, x3 |-> x3,
             p3 |-> p3, p2 |-> p2, p1 |-> p1, p0 |-> p0]]

----------------------------------------------------------------------------
(* atan2, atan2_simd and the trait method SimdFloatMath::atan2 *)

\* A value of atan2: the angle p + k*pi with p a value of atan ("angle"),
\* pi/2 carrying the sign of tan ("half_pi"), or NaN ("nan").
Atan2Val(kind, t, k) == [kind |-> kind, tan |-> t, pi |-> k]

\* atan2(y, x): for x /= 0 it is atan(y / x), unchanged for x > 0, plus pi
\* for y non-negative and minus pi for y negative otherwise; for x = 0 it is
\* pi/2 with the sign of y, and NaN for y = 0.
atan2(y, x) ==
    IF ~IsZero(x)
    THEN Atan2Val("angle", atan(FDiv(y, x)).p0.tan,
                  IF FLt(Zero, x) THEN 0 ELSE IF SignBit(y) THEN -1 ELSE 1)
    ELSE IF IsZero(y) THEN Atan2Val("nan", Zero, 0)
    ELSE Atan2Val("half_pi", copysign(One, y), 0)

\* atan2_simd(y, x): the same in every lane, by sign copies and selects.
atan2_simd(y, x) == [i \in DOMAIN y |-> atan2(y[i], x[i])]

\* Mutant: the receiver is passed as x.
SimdFloatMath_atan2_Swapped(self, x) == atan2_simd(x, self)

\* impl SimdFloatMath for Simd<f64, LANES>: fn atan2(self, x)
SimdFloatMath_atan2(self, x) == atan2_simd(self, x)

----------------------------------------------------------------------------
(* exp.rs: exp_pt1, exp, exp_pt1_simd, exp_simd *)

\* const EXP_PT2: the double nearest exp(0.2), kept as the first power of
\* itself.
EXP_PT2 == Sym(One, FALSE, Zero, 1)

\* const A: f64 = 0.2, the double nearest 1/5: 3602879701896397 * 2^-54,
\* which is 1/5 + 1/5 * 2^-54.
EXP_A == RoundEta(F(1, 5), Zero, TRUE)

\* const TAYLOR: 1/1!, 1/2!, ..., 1/10!
RECURSIVE Factorial(_)
Factorial(k) == IF k = 0 THEN 1 ELSE k * Factorial(k - 1)
EXP_TAYLOR_LEN == 10
EXP_TAYLOR == [k \in 1..EXP_TAYLOR_LEN |-> F(1, Factorial(k))]

\* for f in TAYLOR { acc += xn * f; xn *= x }, from table entry i on.
RECURSIVE ExpPt1Fold(_, _, _, _)
ExpPt1Fold(x, i, xn, acc) ==
    IF i > Len(EXP_TAYLOR) THEN acc
    ELSE ExpPt1Fold(x, i + 1, FMul(xn, x), FAdd(acc, FMul(xn, EXP_TAYLOR[i])))

\* exp_pt1(x): at a zero the loop is run as written; elsewhere the value
\* of the polynomial is kept by its argument.
exp_pt1(x) ==
    IF ~IsLin(x) /\ IsZero(x) THEN ExpPt1Fold(x, 1, x, One)
    ELSE Sym(One, TRUE, x, 0)

\* Mutant: the quotient is negated before the power is taken.
ExpFac_Negated(n) == powi(EXP_PT2, -n)

\* let fac = powi(EXP_PT2, n): the outcomes of the call
ExpFac(n) == powi(EXP_PT2, n)

\* exp(x): the set of outcomes; a returned one keeps the locals u, n, expu
\* and fac with the value v = expu * fac.
exp(x) ==
    { IF o.kind = "returned"
      THEN [kind |-> "returned", u |-> c.r, n |-> c.n,
            expu |-> exp_pt1(c.r), fac |-> o.v,
            v |-> FMul(exp_pt1(c.r), o.v)]
      ELSE o
        : <<c, o>> \in UNION { {c1} \X ExpFac(c1.n)
                                : c1 \in { c2 \in periodic_clamp(x, EXP_A) :
                                             c2.r # Untracked } } }

\* for f in TAYLOR { acc = xn.mul_add(Simd::splat(f), acc); xn *= x } in
\* one lane, from table entry i on.
RECURSIVE ExpPt1SimdFold(_, _, _, _)
ExpPt1SimdFold(x, i, xn, acc) ==
    IF i > Len(EXP_TAYLOR) THEN acc
    ELSE ExpPt1SimdFold(x, i + 1, FMul(xn, x), mul_add(xn, EXP_TAYLOR[i], acc))

exp_pt1_simd(x) ==
    [i \in DOMAIN x |->
        IF ~IsLin(x[i]) /\ IsZero(x[i]) THEN ExpPt1SimdFold(x[i], 1, x[i], One)
        ELSE Sym(One, TRUE, x[i], 0)]

\* exp_simd(x): the set of results, each keeping the lane vectors u, n and
\* the values v = expu * fac.
exp_simd(x) ==
    { LET expu == exp_pt1_simd(c.rs)
          fac == powi_simd([i \in DOMAIN x |-> EXP_PT2], c.ns)
      IN  [us |-> c.rs, ns |-> c.ns,
           vs |-> [i \in DOMAIN x |-> FMul(expu[i], fac[i])]]
        : c \in { c2 \in periodic_clamp_simd(x, EXP_A) :
                    \A i \in DOMAIN x : c2.rs[i] # Untracked } }

----------------------------------------------------------------------------
(* trig.rs: sin_shift, sin, cos, sin_shift_simd, sin_simd, cos_simd *)

\* PI / 2.0 and PI / 4.0: the halvings of the double PI are exact.
PI_2 == Lin(Zero, Half, "pi")
PI_4 == Lin(Zero, F(1, 4), "pi")

\* A value of the polynomial TAYLOR_COEFFS, which stands for sin(u + pi/4)
\* on -pi/4 <= u <= pi/4, kept by its argument u, and its negation.
TrigVal(neg, u) == [neg |-> neg, at |-> u]
SinPoly(u) == TrigVal(FALSE, u)
TrigNeg(v) == TrigVal(~v.neg, v.at)

\* Mutant: u is never negated.
SinShiftU_Keep(n, u) == u

\* if n & 1 != 0 { u = -u; }
SinShiftU(n, u) == IF I32Bit(n, 0) # 0 THEN DblNeg(u) ELSE u

\* if n & 2 != 0 { tl = -tl; }
SinShiftTl(n, tl) == IF I32Bit(n, 1) # 0 THEN TrigNeg(tl) ELSE tl

\* sin_shift(x): the set of results, each keeping the reducer's (u0, n),
\* the u handed to the polynomial and the value tl returned.
sin_shift(x) ==
    { LET u == SinShiftU(c.n, c.r)
      IN  [u0 |-> c.r, n |-> c.n, u |-> u, tl |-> SinShiftTl(c.n, SinPoly(u))]
        : c \in { c2 \in periodic_clamp(x, PI_2) : c2.r # Untracked } }

\* sin(x) = sin_shift(x - PI / 4.0), cos(x) = sin_shift(x + PI / 4.0)
sin(x) == sin_shift(DblAdd(x, DblNeg(PI_4)))
cos(x) == sin_shift(DblAdd(x, PI_4))

\* let n: Simd<i64, LANES> = n.cast(): the widening keeps the value, and
\* bit i of the 64-bit pattern is that of the value.
I64Bit(n, i) == (n \div (2 ^ i)) % 2

\* Mutant: the arms of the first select are exchanged.
SinShiftSimdU_Swapped(n, u) == IF I64Bit(n, 0) = 0 THEN DblNeg(u) ELSE u

\* (n & Simd::splat(1)).simd_eq(Simd::splat(0)).select(u, -u), one lane
SinShiftSimdU(n, u) == IF I64Bit(n, 0) = 0 THEN u ELSE DblNeg(u)

\* (n & Simd::splat(2)).simd_eq(Simd::splat(0)).select(tl, -tl), one lane
SinShiftSimdTl(n, tl) == IF I64Bit(n, 1) = 0 THEN tl ELSE TrigNeg(tl)

\* sin_shift_simd(x): the set of results, each a vector of lane records.
sin_shift_simd(x) ==
    { [i \in DOMAIN x |->
         LET u == SinShiftSimdU(c.ns[i], c.rs[i])
         IN  [u0 |-> c.rs[i], n |-> c.ns[i], u |-> u,
              tl |-> SinShiftSimdTl(c.ns[i], SinPoly(u))]]
        : c \in { c2 \in periodic_clamp_simd(x, PI_2) :
                    \A i \in DOMAIN x : c2.rs[i] # Untracked } }

sin_simd(x) == sin_shift_simd([i \in DOMAIN x |-> DblAdd(x[i], DblNeg(PI_4))])
cos_simd(x) == sin_shift_simd([i \in DOMAIN x |-> DblAdd(x[i], PI_4)])

----------------------------------------------------------------------------
(* The arguments drawn *)

\* The lane width LANES of the lane-parallel functions.
LANES == 2
Lanes == 1..LANES

\* The reducer's arguments: x on the grid of multiples of 1/GridDen up to
\* MaxK/GridDen either side of zero, both zeros, and two large doubles.
GridDen == 8
MaxK == 20

ClampXs == {F(k, GridDen) : k \in -MaxK..MaxK} \cup {NegZero}
ClampPeriods == {F(1, 4), Half, One, F(3, 2), Two}
BigXs == {F(2 ^ 29, 1), F(-(2 ^ 29), 1)}
BigPeriods == {F(1, 8), One, Two}

ClampArgs == (ClampXs \X ClampPeriods) \cup (BigXs \X BigPeriods)

\* The exponents -MaxExp..MaxExp and the bases below; the extreme exponents
\* go with bases of magnitude 1, whose powers stay representable.
MaxExp == 4
UnitBases == {One, F(-1, 1)}
PowiExps == -MaxExp..MaxExp
ExtremeExps == {I32_MIN, I32_MIN + 1, I32_MAX, -1, 0, 2}

PowiArgs ==
    (({Two, F(-2, 1), Half, F(3, 1), F(-1, 3), F(3, 2)} \cup UnitBases) \X PowiExps)
        \cup (UnitBases \X ExtremeExps)

PowiSimdBases == {Two, F(-1, 3), F(3, 2)}
PowiSimdArgs ==
    { xn \in [xs : [Lanes -> PowiSimdBases \cup UnitBases],
              ns : [Lanes -> PowiExps \cup ExtremeExps]] :
        \/ \A i \in Lanes : xn.xs[i] \in PowiSimdBases /\ xn.ns[i] \in PowiExps
        \/ \A i \in Lanes : xn.xs[i] \in UnitBases /\ xn.ns[i] \in ExtremeExps }

\* Coefficient tables of length 1..MaxLen over the integers -MaxCoef..MaxCoef.
MaxLen == 3
MaxCoef == 1
PolyTables == UNION {[1..m -> {FromInt(c) : c \in -MaxCoef..MaxCoef}] : m \in 1..MaxLen}

\* The arguments of ln: the doubles m / LnDen * 2^k with 1 <= m / LnDen < 2
\* and |k| <= MaxLnShift.
LnDen == 8
MaxLnShift == 3
LnXs == {FMul(F(m, LnDen), Power(Two, k)) :
           m \in LnDen..(2 * LnDen - 1), k \in -MaxLnShift..MaxLnShift}
LnSimdXs == {FMul(F(m, LnDen), Power(Two, k)) :
               m \in {LnDen, LnDen + 3, 2 * LnDen - 1}, k \in {-2, 0, 1}}

\* The arguments of atan: the multiples of 1/AtanDen up to MaxAtanK/AtanDen
\* either side of zero, and both zeros.
AtanDen == 4
MaxAtanK == 24
AtanXs == {F(k, AtanDen) : k \in -MaxAtanK..MaxAtanK} \cup {NegZero}
              \cup {F(2 ^ 10, 1), F(-(2 ^ 10), 1), F(1, 2 ^ 10), F(1, 3)}
AtanSimdXs == {Zero, NegZero, One, F(-1, 1), F(1, AtanDen), F(-3, AtanDen),
               F(5, 2), F(-6, 1), F(1, 3)}

\* The arguments of atan2: the multiples of 1/Atan2Den up to
\* MaxAtan2K/Atan2Den either side of zero, and both zeros.
Atan2Den == 2
MaxAtan2K == 5
Atan2Xs == {F(k, Atan2Den) : k \in -MaxAtan2K..MaxAtan2K} \cup {NegZero}
Atan2SimdXs == {Zero, NegZero, One, F(-1, 1), F(-MaxAtan2K, Atan2Den), Two}

\* The arguments of exp: the doubles nearest the multiples of 1/ExpDen up
\* to MaxExpK/ExpDen either side of zero (what the literals 0.05, 0.3, 0.5,
\* 1.0, ... denote), and both zeros.
ExpDen == 20
MaxExpK == 500
ExpXs == {RoundEta(F(k, ExpDen), Zero, TRUE) : k \in -MaxExpK..MaxExpK} \cup {NegZero}
ExpSimdXs == {Zero, NegZero, Half, F(-1, 1)} \cup
             {RoundEta(F(k, ExpDen), Zero, TRUE) : k \in {1, 6, -MaxExpK, MaxExpK}}

\* The arguments of the trigonometric functions, in radians: the doubles
\* k * 2^-TrigShift up to MaxTrigK * 2^-TrigShift, just beyond 2 pi, either
\* side of zero, both zeros, and the multiples k / 4 * PI of the double PI
\* for |k| <= 9, which are doubles (9 * 884279719003555 < 2^53) and stay
\* so when PI / 4.0 is added or subtracted.
TrigShift == 4
MaxTrigK == 112
TrigXs == {F(k, 2 ^ TrigShift) : k \in -MaxTrigK..MaxTrigK} \cup {NegZero}
              \cup {Lin(Zero, F(k, 4), "pi") : k \in -9..9}
TrigSimdXs == {F(k, 2) : k \in -(MaxTrigK \div 2 ^ (TrigShift - 1))..
                              (MaxTrigK \div 2 ^ (TrigShift - 1))} \cup {NegZero}
                  \cup {Lin(Zero, F(k, 4), "pi") : k \in {-9, -7, -3, -1, 1, 2, 3, 5}}

None == [none |-> TRUE]

----------------------------------------------------------------------------
(* The calls *)

Init ==
    /\ pc = "idle"
    /\ call = "none"
    /\ arg = None
    /\ loc = None
    /\ ret = None

CallPeriodicClamp ==
    /\ pc = "idle"
    /\ \E xa \in ClampArgs :
         /\ arg' = [x |-> xa[1], a |-> xa[2]]
         /\ ret' \in periodic_clamp(xa[1], xa[2])
    /\ call' = "periodic_clamp"
    /\ pc' = "done"
    /\ UNCHANGED loc

CallPeriodicClampSimd ==
    /\ pc = "idle"
    /\ \E a \in ClampPeriods \cup BigPeriods :
       \E x \in [Lanes -> {v \in {F(4 * k, GridDen) : k \in -(MaxK \div 4)..(MaxK \div 4)}
                                 \cup {NegZero} \cup BigXs : <<v, a>> \in ClampArgs}] :
         /\ arg' = [xs |-> x, a |-> a]
         /\ ret' \in periodic_clamp_simd(x, a)
    /\ call' = "periodic_clamp_simd"
    /\ pc' = "done"
    /\ UNCHANGED loc

NextClamp == CallPeriodicClamp \/ CallPeriodicClampSimd

SpecClamp == Init /\ [][NextClamp]_vars

CallPowi ==
    /\ pc = "idle"
    /\ \E xn \in PowiArgs : \E a \in I32Abs(xn[2]) :
         /\ arg' = [x |-> xn[1], n |-> xn[2]]
         /\ IF a.panic
            THEN pc' = "abort" /\ loc' = loc
            ELSE pc' = "loop" /\ loc' = PowiEntry(xn[1], xn[2], a.v)
    /\ call' = "powi"
    /\ UNCHANGED ret

PowiIter ==
    /\ pc = "loop" /\ call = "powi"
    /\ loc.n # 0
    /\ loc' = PowiBody(loc)
    /\ UNCHANGED <<pc, call, arg, ret>>

PowiReturn ==
    /\ pc = "loop" /\ call = "powi"
    /\ loc.n = 0
    /\ ret' = [v |-> loc.acc]
    /\ pc' = "done"
    /\ UNCHANGED <<call, arg, loc>>

CallPowiSimd ==
    /\ pc = "idle"
    /\ \E xn \in PowiSimdArgs :
         /\ arg' = xn
         /\ loc' = PowiSimdEntry(xn.xs, xn.ns)
    /\ call' = "powi_simd"
    /\ pc' = "loop"
    /\ UNCHANGED ret

PowiSimdIter ==
    /\ pc = "loop" /\ call = "powi_simd"
    /\ ~PowiSimdAllZero(loc)
    /\ loc' = PowiSimdBody(loc)
    /\ UNCHANGED <<pc, call, arg, ret>>

PowiSimdReturn ==
    /\ pc = "loop" /\ call = "powi_simd"
    /\ PowiSimdAllZero(loc)
    /\ ret' = [vs |-> loc.accs]
    /\ pc' = "done"
    /\ UNCHANGED <<call, arg, loc>>

NextPowi ==
    \/ CallPowi \/ PowiIter \/ PowiReturn
    \/ CallPowiSimd \/ PowiSimdIter \/ PowiSimdReturn

SpecPowi == Init /\ [][NextPowi]_vars

\* A call in progress takes its next step.
FairSpecPowi == SpecPowi /\ WF_vars(NextPowi)

CallPolyval ==
    /\ pc = "idle"
    /\ \E cs \in PolyTables :
       \E x \in {Zero, NegZero, One, F(-1, 1), Two, Half, F(-3, 2), F(2, 3)} :
         /\ arg' = [cs |-> cs, x |-> x]
         /\ ret' = [v |-> polyval(cs, x)]
    /\ call' = "polyval"
    /\ pc' = "done"
    /\ UNCHANGED loc

CallPolyvalSimd ==
    /\ pc = "idle"
    /\ \E cs \in PolyTables : \E x \in [Lanes -> {Zero, F(-3, 2), Two}] :
         /\ arg' = [cs |-> cs, xs |-> x]
         /\ ret' = [vs |-> polyval_simd(cs, x)]
    /\ call' = "polyval_simd"
    /\ pc' = "done"
    /\ UNCHANGED loc

NextPoly == CallPolyval \/ CallPolyvalSimd

SpecPoly == Init /\ [][NextPoly]_vars

CallLn ==
    /\ pc = "idle"
    /\ \E x \in LnXs : \E o \in ln(x) :
         /\ arg' = [x |-> x]
         /\ IF o.kind = "abort"
            THEN pc' = "abort" /\ ret' = ret
            ELSE pc' = "done" /\ ret' = o.v
    /\ call' = "ln"
    /\ UNCHANGED loc

CallLnSimd ==
    /\ pc = "idle"
    /\ \E x \in [Lanes -> LnSimdXs] :
         /\ arg' = [xs |-> x]
         /\ ret' = [ls |-> ln_simd(x)]
    /\ call' = "ln_simd"
    /\ pc' = "done"
    /\ UNCHANGED loc

CallFakeLog2 ==
    /\ pc = "idle"
    /\ \E x \in LnXs : \E e \in fake_log2(x) :
         /\ arg' = [x |-> x]
         /\ IF e.panic
            THEN pc' = "abort" /\ ret' = ret
            ELSE pc' = "done" /\ ret' = [e |-> e.v]
    /\ call' = "fake_log2"
    /\ UNCHANGED loc

CallFakeLog2Simd ==
    /\ pc = "idle"
    /\ \E x \in [Lanes -> LnSimdXs] :
         /\ arg' = [xs |-> x]
         /\ ret' = [es |-> [i \in Lanes |-> fake_log2_lane(x[i])]]
    /\ call' = "fake_log2_simd"
    /\ pc' = "done"
    /\ UNCHANGED loc

NextLn == CallLn \/ CallLnSimd \/ CallFakeLog2 \/ CallFakeLog2Simd

SpecLn == Init /\ [][NextLn]_vars

CallAtan ==
    /\ pc = "idle"
    /\ \E x \in AtanXs :
         /\ arg' = [x |-> x]
         /\ ret' = atan(x)
    /\ call' = "atan"
    /\ pc' = "done"
    /\ UNCHANGED loc

CallAtanSimd ==
    /\ pc = "idle"
    /\ \E x \in [Lanes -> AtanSimdXs] :
         /\ arg' = [xs |-> x]
         /\ ret' = [ls |-> atan_simd(x)]
    /\ call' = "atan_simd"
    /\ pc' = "done"
    /\ UNCHANGED loc

NextAtan == CallAtan \/ CallAtanSimd

SpecAtan == Init /\ [][NextAtan]_vars

CallAtan2 ==
    /\ pc = "idle"
    /\ \E y \in Atan2Xs, x \in Atan2Xs :
         /\ arg' = [y |-> y, x |-> x]
         /\ ret' = [a2 |-> atan2(y, x)]
    /\ call' = "atan2"
    /\ pc' = "done"
    /\ UNCHANGED loc

CallTraitAtan2 ==
    /\ pc = "idle"
    /\ \E self \in [Lanes -> Atan2SimdXs], x \in [Lanes -> Atan2SimdXs] :
         /\ arg' = [selfs |-> self, xs |-> x]
         /\ ret' = [a2s |-> SimdFloatMath_atan2(self, x)]
    /\ call' = "SimdFloatMath::atan2"
    /\ pc' = "done"
    /\ UNCHANGED loc

NextAtan2 == CallAtan2 \/ CallTraitAtan2

SpecAtan2 == Init /\ [][NextAtan2]_vars

CallExp ==
    /\ pc = "idle"
    /\ \E x \in ExpXs :
         /\ arg' = [x |-> x]
         /\ \E o \in exp(x) :
              /\ ret' = o
              /\ pc' = IF o.kind = "returned" THEN "done" ELSE "abort"
    /\ call' = "exp"
    /\ UNCHANGED loc

CallExpSimd ==
    /\ pc = "idle"
    /\ \E x \in [Lanes -> ExpSimdXs] :
         /\ arg' = [xs |-> x]
         /\ ret' \in exp_simd(x)
    /\ call' = "exp_simd"
    /\ pc' = "done"
    /\ UNCHANGED loc

NextExp == CallExp \/ CallExpSimd

SpecExp == Init /\ [][NextExp]_vars

CallSinShift ==
    /\ pc = "idle"
    /\ \E x \in TrigXs :
         /\ arg' = [x |-> x]
         /\ ret' \in sin_shift(x)
    /\ call' = "sin_shift"
    /\ pc' = "done"
    /\ UNCHANGED loc

CallSin ==
    /\ pc = "idle"
    /\ \E x \in TrigXs :
         /\ arg' = [x |-> x]
         /\ ret' \in sin(x)
    /\ call' = "sin"
    /\ pc' = "done"
    /\ UNCHANGED loc

CallCos ==
    /\ pc = "idle"
    /\ \E x \in TrigXs :
         /\ arg' = [x |-> x]
         /\ ret' \in cos(x)
    /\ call' = "cos"
    /\ pc' = "done"
    /\ UNCHANGED loc

CallSinShiftSimd ==
    /\ pc = "idle"
    /\ \E x \in [Lanes -> TrigSimdXs] :
         /\ arg' = [xs |-> x]
         /\ \E r \in sin_shift_simd(x) : ret' = [ls |-> r]
    /\ call' = "sin_shift_simd"
    /\ pc' = "done"
    /\ UNCHANGED loc

NextTrig == CallSinShift \/ CallSin \/ CallCos \/ CallSinShiftSimd

SpecTrig == Init /\ [][NextTrig]_vars

----------------------------------------------------------------------------
(* Periodic range reducer: properties *)

ClampDone == pc = "done" /\ call = "periodic_clamp"

\* The call's quotient is within the precondition: round(x / a) is an i32.
ClampInRange == ~OutOfI32(ClampQuot(arg.x, arg.a))

\* C1: for every x and period a > 0 whose rounded quotient fits in an i32,
\* periodic_clamp(x, a) returns (r, n) with |r| <= a / 2 and r + n * a = x.
C1_RemainderBound ==
    (ClampDone /\ ClampInRange) =>
        /\ FLe(FAbs(ret.r), FMul(arg.a, Half))
        /\ FEq(FAdd(ret.r, FMul(FromInt(ret.n), arg.a)), arg.x)

\* A negative x some periods away from zero was reduced to a nonzero
\* remainder.
C1_Witness ==
    /\ ClampDone /\ ClampInRange
    /\ ret.n < -1
    /\ ret.r.num # 0
    /\ FEq(FAbs(ret.r), FMul(arg.a, Half))

\* |x - m * a|
ClampDist(x, a, m) == FAbs(FSub(x, FMul(FromInt(m), a)))

\* x / a lies exactly halfway between two integers.
ClampTie(x, a) == LET q == FDiv(x, a) IN q.den = 2

\* C2: the quotient n returned by periodic_clamp(x, a) minimizes |x - n * a|
\* (no neighbouring integer is nearer; the distance is convex in n), and
\* when x / a lies halfway between two integers n is the one farther from
\* zero, on the side of x's sign, for negative x as for positive x.
C2_NearestAwayFromZero ==
    (ClampDone /\ ClampInRange) =>
        /\ \A m \in {ret.n - 1, ret.n + 1} :
              FLe(ClampDist(arg.x, arg.a, ret.n), ClampDist(arg.x, arg.a, m))
        /\ ClampTie(arg.x, arg.a) =>
              /\ FLt(FAbs(FDiv(arg.x, arg.a)), FAbs(FromInt(ret.n)))
              /\ (ret.n < 0) = SignBit(arg.x)

\* A negative x exactly halfway between two multiples of the period.
C2_Witness ==
    /\ ClampDone /\ ClampInRange
    /\ ClampTie(arg.x, arg.a)
    /\ SignBit(arg.x)
    /\ ret.n < 0

\* The extreme of the i32 range on the side of the sign: the saturated
\* quotient.
Saturated(neg) == IF neg THEN I32_MIN ELSE I32_MAX

\* C3: when round(x / a) does not fit in an i32, periodic_clamp and
\* periodic_clamp_simd yield a defined outcome: the quotient saturated to
\* the representable extreme, or a domain error (an abort of the call);
\* never a wrapped or otherwise undefined quotient.
C3_OutOfRangeDefined ==
    /\ (ClampDone /\ ~ClampInRange) =>
          /\ ret.n # AnyI32
          /\ ret.n = Saturated(SignBit(arg.x))
    /\ (pc = "done" /\ call = "periodic_clamp_simd") =>
          \A i \in Lanes :
             OutOfI32(ClampQuotLane(arg.xs[i], arg.a)) =>
                /\ ret.ns[i] # AnyI32
                /\ ret.ns[i] = Saturated(SignBit(arg.xs[i]))

----------------------------------------------------------------------------
(* Integer power by squaring: properties *)

PowiDone == pc = "done" /\ call = "powi"

PowiCalled == call = "powi"
PowiReturnedPower == PowiDone /\ FEq(ret.v, Power(arg.x, arg.n))

\* C4: for every nonzero base x and every i32 exponent n, positive, negative
\* or zero, the call powi(x, n) returns, and returns x^n (1 for n = 0).
C4_PowiReturnsPower == PowiCalled ~> PowiReturnedPower

\* C5: for every nonzero x and positive n, powi(x, -n) = 1 / powi(x, n), and
\* it is what the loop gives for the base 1 / x and the exponent n (the
\* reciprocal is taken once, the loop runs on |n|).
C5_NegativeExponentReciprocal ==
    (PowiDone /\ arg.n < 0 /\ arg.n > I32_MIN) =>
        /\ \A o \in powi(arg.x, -arg.n) :
              o.kind = "returned" /\ FEq(ret.v, FDiv(One, o.v))
        /\ \A o \in powi(recip(arg.x), -arg.n) :
              o.kind = "returned" /\ FEq(ret.v, o.v)

\* A base other than 1 and -1 was raised to a negative exponent below -1.
C5_Witness ==
    /\ PowiDone
    /\ arg.n < -2
    /\ ~FEq(FAbs(arg.x), One)
    /\ FEq(ret.v, FDiv(One, Power(arg.x, -arg.n)))
    /\ ~FEq(ret.v, Power(arg.x, -arg.n))

\* C6: for every i32 exponent, i32::MIN included, the loops of powi and of
\* powi_simd work on the non-negative magnitude |n|: the call does not
\* abort, the exponent held by the scalar loop is never negative (a
\* negative one is never shifted to zero), and the exponent a lane holds is
\* never wider than the 32 bits of a magnitude.
C6_LoopOnMagnitude ==
    /\ pc # "abort"
    /\ (pc = "loop" /\ call = "powi") => loc.n >= 0
    /\ (pc = "loop" /\ call = "powi_simd") =>
          \A i \in Lanes : \A b \in 33..64 : loc.ns[i][b] = 0

\* C7: each lane i of powi_simd(x, n) is what scalar powi(x[i], n[i])
\* returns, whatever the other lanes hold; a lane whose exponent has reached
\* zero keeps its accumulator through the iterations left.
C7_LanesEqualScalar ==
    /\ (pc = "done" /\ call = "powi_simd") =>
          \A i \in Lanes : powi(arg.xs[i], arg.ns[i]) = {Returned(ret.vs[i])}
    /\ (pc = "loop" /\ call = "powi_simd") =>
          \A i \in Lanes :
             U64IsZero(loc.ns[i]) => PowiSimdBody(loc).accs[i] = loc.accs[i]

----------------------------------------------------------------------------
(* Polynomial evaluator: properties *)

\* The sum of cs[i] * x^(M - i) over i = k..M, M the length of the table.
RECURSIVE PolySum(_, _, _)
PolySum(cs, x, k) ==
    IF k > Len(cs) THEN Zero
    ELSE FAdd(FMul(cs[k], NatPower(x, Len(cs) - k)), PolySum(cs, x, k + 1))

\* C8: for every table cs of length M >= 1 and every x, polyval(cs, x) is the
\* sum of cs[i] * x^(M - 1 - i) (0-based i: the first coefficient is the
\* highest-order one); for M = 1 it is cs[0] whatever x is; and every lane
\* of polyval_simd holds that value for the lane's x.
C8_HornerValue ==
    /\ (pc = "done" /\ call = "polyval") =>
          /\ FEq(ret.v, PolySum(arg.cs, arg.x, 1))
          /\ Len(arg.cs) = 1 => ret.v = arg.cs[1]
    /\ (pc = "done" /\ call = "polyval_simd") =>
          \A i \in Lanes :
             /\ FEq(ret.vs[i], PolySum(arg.cs, arg.xs[i], 1))
             /\ Len(arg.cs) = 1 => ret.vs[i] = arg.cs[1]

\* A table of three nonzero coefficients, not a palindrome, was evaluated
\* away from 0, 1 and -1.
C8_Witness ==
    /\ pc = "done" /\ call = "polyval"
    /\ Len(arg.cs) = 3
    /\ \A i \in 1..3 : arg.cs[i].num # 0
    /\ arg.cs[1] # arg.cs[3]
    /\ arg.x.num # 0 /\ ~FEq(FAbs(arg.x), One)
    /\ ret.v # arg.cs[1]

----------------------------------------------------------------------------
(* ln: properties *)

\* C9: for every positive input each lane of ln_simd takes the decisions of
\* scalar ln on the lane's value: the same exponent n and, in each of the
\* two folds, the same factor and the same sign flag, so that both evaluate
\* the polynomial at the same argument.
C9_LanesDecideAsScalar ==
    (pc = "done" /\ call = "ln_simd") =>
        \A i \in Lanes : \A o \in ln(arg.xs[i]) :
           o.kind = "returned" =>
              /\ ret.ls[i].n = o.v.n
              /\ ret.ls[i].fsq2 = o.v.fsq2 /\ ret.ls[i].nsq2 = o.v.nsq2
              /\ ret.ls[i].f2p4 = o.v.f2p4 /\ ret.ls[i].n2p4 = o.v.n2p4
              /\ ret.ls[i].xp = o.v.xp

----------------------------------------------------------------------------
(* atan: properties *)

\* C10: atan is odd, atan(-x) = -atan(x) exactly, for every x: the locals
\* s1, s2, s3 and p1 are those of |x|, the same for x and -x, and the sign
\* of the argument is copied onto the result last; the same in every lane
\* of atan_simd.
C10_AtanOdd ==
    /\ (pc = "done" /\ call = "atan") =>
          LET m == atan(FNeg(arg.x))
          IN  /\ m.p0 = AngNeg(ret.p0)
              /\ m.p1 = ret.p1
              /\ <<m.s1, m.s2, m.s3>> = <<ret.s1, ret.s2, ret.s3>>
              /\ SignBit(ret.p0.tan) = SignBit(arg.x)
    /\ (pc = "done" /\ call = "atan_simd") =>
          LET m == atan_simd([i \in Lanes |-> FNeg(arg.xs[i])])
          IN  \A i \in Lanes :
                 /\ m[i].p0 = AngNeg(ret.ls[i].p0)
                 /\ m[i].p1 = ret.ls[i].p1
                 /\ SignBit(ret.ls[i].p0.tan) = SignBit(arg.xs[i])

\* atan of a negative argument below -1 returned a negative angle.
C10_Witness ==
    /\ pc = "done" /\ call = "atan"
    /\ FLt(arg.x, F(-1, 1))
    /\ ret.p0.tan.num < 0
    /\ ret.p1.tan.num > 0
    /\ ret.s1.num > 0 /\ ret.s2.num < 0

----------------------------------------------------------------------------
(* atan2: properties *)

\* r is the value the case analysis of atan2 gives at (y, x).
Atan2Cases(y, x, r) ==
    /\ FLt(Zero, x) => r = Atan2Val("angle", atan(FDiv(y, x)).p0.tan, 0)
    /\ (FLt(x, Zero) /\ (FLt(Zero, y) \/ y = Zero)) =>
          r = Atan2Val("angle", atan(FDiv(y, x)).p0.tan, 1)
    /\ (FLt(x, Zero) /\ FLt(y, Zero)) =>
          r = Atan2Val("angle", atan(FDiv(y, x)).p0.tan, -1)
    /\ (IsZero(x) /\ FLt(Zero, y)) => r = Atan2Val("half_pi", One, 0)
    /\ (IsZero(x) /\ FLt(y, Zero)) => r = Atan2Val("half_pi", F(-1, 1), 0)
    /\ (IsZero(x) /\ IsZero(y)) => r.kind = "nan"

\* C11: atan2(y, x) is atan(y/x) for x > 0, atan(y/x) + pi for x < 0 and y
\* non-negative (positive zero included), atan(y/x) - pi for x < 0 and y
\* negative, +pi/2 or -pi/2 by the sign of y for x = 0, NaN for x = y = 0;
\* the trait method atan2(self, x) passes self as y.
C11_Atan2Cases ==
    /\ (pc = "done" /\ call = "atan2") => Atan2Cases(arg.y, arg.x, ret.a2)
    /\ (pc = "done" /\ call = "SimdFloatMath::atan2") =>
          \A i \in Lanes : Atan2Cases(arg.selfs[i], arg.xs[i], ret.a2s[i])

\* The trait method returned atan(self/x) + pi in a lane with x < 0 < self
\* where swapping the two arguments would give another value.
C11_Witness ==
    /\ pc = "done" /\ call = "SimdFloatMath::atan2"
    /\ \E i \in Lanes :
         /\ FLt(arg.xs[i], Zero) /\ FLt(Zero, arg.selfs[i])
         /\ ~FEq(arg.xs[i], FNeg(arg.selfs[i]))
         /\ ret.a2s[i].pi = 1 /\ ret.a2s[i].tan.num < 0

----------------------------------------------------------------------------
(* exp: properties *)

\* The parts a and b of a double a + b * c.
LinA(u) == IF IsLin(u) THEN u.a ELSE u
LinB(u) == IF IsLin(u) THEN u.b ELSE Zero

\* |u| <= B + C * 2^-54 for u = a + b * 2^-54: the rationals a and B are
\* equal or differ by far more than the terms in 2^-54.
EtaAbsLe(u, B, C) ==
    \/ FLt(FAbs(LinA(u)), B)
    \/ /\ FEq(FAbs(LinA(u)), B)
       /\ FLe(IF LinA(u).num < 0 THEN FNeg(LinB(u)) ELSE LinB(u), C)

\* exp returned poly(u) * EXP_PT2^n, the power being the value of
\* powi(EXP_PT2, n) and the polynomial that of exp_pt1, which is 1 at a
\* zero; exp(0) = 1.
ExpReturnsProduct ==
    /\ pc = "done"
    /\ ret.expu = exp_pt1(ret.u)
    /\ ret.fac = (IF ret.n = 0 THEN One ELSE Sym(One, FALSE, Zero, ret.n))
    /\ ret.v = (IF ~IsLin(ret.u) /\ IsZero(ret.u) /\ ret.n = 0 THEN One
                ELSE Sym(One, IsLin(ret.u) \/ ~IsZero(ret.u), ret.u, ret.n))
    /\ (~IsLin(arg.x) /\ IsZero(arg.x)) => ret.v = One

\* C12 as stated: for every x in range, exp(x) evaluates its polynomial
\* only at a remainder u with |u| <= 0.1 and u + 0.2 * n = x, 0.2 being the
\* double, and returns poly(u) * exp(0.2)^n, the power computed by powi; so
\* exp(0) = 1 exactly.
C12_AsStated ==
    (call = "exp" /\ pc # "idle") =>
        /\ ExpReturnsProduct
        /\ EtaAbsLe(ret.u, F(1, 10), Zero)
        /\ FEq(FAdd(LinA(ret.u), F(ret.n, 5)), LinA(arg.x))
        /\ FEq(FAdd(LinB(ret.u), F(ret.n, 5)), LinB(arg.x))

\* C12, amended: for every x in range, exp(x) evaluates its polynomial only
\* at a remainder u with |u| <= 0.1 + 2^-46 where u + p = x, p being the
\* double nearest 0.2 * n (within half a unit in its last place, 2^(e - 53)
\* for 2^e <= n / 5 < 2^(e + 1)), and returns poly(u) * exp(0.2)^n with the
\* power computed by powi; so exp(0) = 1 exactly.
C12_ExpReductionRounded ==
    (call = "exp" /\ pc # "idle") =>
        /\ ExpReturnsProduct
        /\ EtaAbsLe(ret.u, F(1, 10), F(2 ^ 8, 1))
        /\ FEq(FAdd(LinA(ret.u), F(ret.n, 5)), LinA(arg.x))
        /\ IF ret.n = 0 THEN ret.u = arg.x
           ELSE FLe(FAbs(FSub(FSub(LinB(arg.x), LinB(ret.u)), F(ret.n, 5))),
                    Power(Two, Log2Floor(F(IAbs(ret.n), 5)) + 1))

\* exp returned poly(u) * exp(0.2)^n for a negative quotient n below -1 and
\* a remainder u beyond 0.1 in magnitude.
C12_Witness ==
    /\ pc = "done" /\ call = "exp"
    /\ ret.n < -1
    /\ IsLin(ret.u) /\ ~EtaAbsLe(ret.u, F(1, 10), Zero)
    /\ ret.v = Sym(One, TRUE, ret.u, ret.n)

----------------------------------------------------------------------------
(* ln: properties of its stages *)

\* 2^(-1/4) < v < 2^(1/4) for v = q * 2^(e4/4), q > 0, by the fourth powers:
\* 1/2 < q^4 * 2^e4 < 2.
LnStrictlyInside(v) ==
    LET a == (v.q.num ^ 4) * (IF v.e4 >= 0 THEN 2 ^ v.e4 ELSE 1)
        b == (v.q.den ^ 4) * (IF v.e4 >= 0 THEN 1 ELSE 2 ^ (-v.e4))
    IN  v.q.num > 0 /\ b < 2 * a /\ a < 2 * b

\* C14: for every positive normal x, exact powers of two included, the
\* argument t = x' - 1 of ln's polynomial lies strictly inside the open
\* interval (2^(-1/4) - 1, 2^(1/4) - 1), x' being the value after the
\* exponent scaling and the two folds.
C14_PolyArgInsideOpenInterval ==
    (pc = "done" /\ call = "ln") => LnStrictlyInside(ret.xp)

\* C15: n is adjusted down by one when it is negative, and for every
\* positive normal x, those below 1 included, x * 2^(-n) lands above 1
\* (the value 1 itself, reached at the powers of two, is let pass).
C15_ScaledAboveOne ==
    /\ (pc = "done" /\ call = "ln") =>
          /\ Log2Floor(arg.x) < 0 => ret.n = Log2Floor(arg.x) - 1
          /\ FLe(One, ret.x1.q)
    /\ (pc = "done" /\ call = "ln_simd") =>
          \A i \in Lanes :
             /\ Log2Floor(arg.xs[i]) < 0 => ret.ls[i].n = Log2Floor(arg.xs[i]) - 1
             /\ FLe(One, ret.ls[i].x1.q)

\* C16: for every positive normal x fake_log2 returns the unbiased exponent,
\* floor(log2 x); for x < 1 it is the negative integer and the u64
\* subtraction neither traps nor gives a wrong value; fake_log2_simd
\* returns the same in every lane.
C16_FakeLog2Exponent ==
    /\ (call = "fake_log2" /\ pc # "idle") =>
          /\ pc = "done"
          /\ ret.e = Log2Floor(arg.x)
    /\ (call = "fake_log2_simd" /\ pc # "idle") =>
          /\ pc = "done"
          /\ \A i \in Lanes : ret.es[i] = Log2Floor(arg.xs[i])

\* C17: the reconstruction of ln is an identity for every positive normal
\* x: with x' the folded value and s1, s2 the recorded flags,
\* x' * 2^n * sqrt2^s1 * (2^(1/4))^s2 = x, which is
\* ln(x') + n ln2 + s1 ln(sqrt2) + s2 ln(2^(1/4)) = ln(x); each fold
\* multiplies by the factor whose logarithm is minus the recorded term.
\* The value ln returns is the table's value at x' - 1 plus the logarithm
\* of a number that times x' is x, so it is ln(x) when the polynomial is
\* exact, and ln(1) = 0.
C17_ReconstructionIdentity ==
    (pc = "done" /\ call = "ln") =>
        /\ FEq(FMul(ret.xp.q, Power(Two, ret.n)), arg.x)
        /\ ret.xp.e4 + 2 * ret.nsq2.num + ret.n2p4.num = 0
        /\ ret.fsq2 = LnVal(One, -2 * ret.nsq2.num)
        /\ ret.f2p4 = LnVal(One, -ret.n2p4.num)
        /\ ret.v.has /\ ret.v.at = ret.xp
        /\ LnMul(ret.v.at, ret.v.log) = LnVal(arg.x, 0)
        /\ FEq(arg.x, One) =>
              /\ ret.n = 0 /\ ret.xp.q = One
              /\ LnMul(ret.v.at, ret.v.log) = LnVal(One, 0)

\* ln returned for an x of negative exponent n, with the first fold
\* recording -1 and the second +1, and the value returned is the table's
\* value at x' - 1 plus the logarithm of x / x'.
C17_Witness ==
    /\ pc = "done" /\ call = "ln"
    /\ ret.n < 0
    /\ ret.nsq2 = F(-1, 1) /\ ret.n2p4 = One
    /\ ret.xp.q # One
    /\ ret.v.has /\ ret.v.at = ret.xp
    /\ LnMul(ret.v.at, ret.v.log) = LnVal(arg.x, 0)

----------------------------------------------------------------------------
(* sin_shift, sin, cos: properties *)

\* The sine of a + b * pi, negated when neg is set, in normal form:
\* (-1)^neg * sin(a + b * pi) with a >= 0 and 0 <= b < 1, by
\* sin(-t) = -sin(t), sin(t + 2 pi) = sin(t) and sin(t + pi) = -sin(t); and,
\* for a = 0, with 0 <= b <= 1/2 by sin(pi - t) = sin(t), neg being clear
\* when the sine is zero.
SineForm(neg, a, b) ==
    LET flip == a.num < 0
        b1 == IF flip THEN FNeg(b) ELSE b
        m  == F(b1.num % (2 * b1.den), b1.den)
        ng == (neg # flip) # FLe(One, m)
        s  == IF FLe(One, m) THEN FSub(m, One) ELSE m
        ph == IF FLt(Half, s) THEN FSub(One, s) ELSE s
    IN  IF a.num = 0 THEN [neg |-> ng /\ ph.num # 0, a |-> Zero, b |-> ph]
        ELSE [neg |-> ng, a |-> FAbs(a), b |-> s]

\* The value a result of sin_shift stands for: the polynomial at u is
\* sin(u + pi/4).
TrigValue(v) == SineForm(v.neg, LinA(v.at), FAdd(LinB(v.at), F(1, 4)))

\* |u| <= PI / 4 for u = a + b * PI, by the bounds 333/106 < PI < 355/113.
WithinQuarterPi(u) ==
    \A p \in {F(333, 106), F(355, 113)} :
       FLe(FAbs(FAdd(LinA(u), FMul(LinB(u), p))), FMul(F(1, 4), p))

\* The argument sin_shift was called on.
SinShiftArg ==
    IF call = "sin" THEN DblAdd(arg.x, DblNeg(PI_4))
    ELSE IF call = "cos" THEN DblAdd(arg.x, PI_4)
    ELSE arg.x

\* C18: with (u, n) = periodic_clamp(x, pi/2), sin_shift returns the value
\* of sin(x + pi/4) for every quotient n, negative ones included: u is
\* negated exactly when bit 0 of n is set, the result exactly when bit 1 is
\* set, so that n counts only modulo 4; hence sin(x) = sin_shift(x - pi/4)
\* and cos(x) = sin_shift(x + pi/4) are the sine and the cosine of x.
C18_SinShiftIsShiftedSine ==
    /\ (pc = "done" /\ call \in {"sin_shift", "sin", "cos"}) =>
          /\ LinA(ret.u0) = LinA(SinShiftArg)
          /\ FEq(FAdd(LinB(ret.u0), F(ret.n, 2)), LinB(SinShiftArg))
          /\ WithinQuarterPi(ret.u)
          /\ ret.u = (IF ret.n % 2 = 1 THEN DblNeg(ret.u0) ELSE ret.u0)
          /\ ret.tl.neg = (ret.n % 4 \in {2, 3})
          /\ ret.tl.at = ret.u
    /\ (pc = "done" /\ call = "sin_shift") =>
          TrigValue(ret.tl) = SineForm(FALSE, LinA(arg.x), FAdd(LinB(arg.x), F(1, 4)))
    /\ (pc = "done" /\ call = "sin") =>
          TrigValue(ret.tl) = SineForm(FALSE, LinA(arg.x), LinB(arg.x))
    /\ (pc = "done" /\ call = "cos") =>
          TrigValue(ret.tl) = SineForm(FALSE, LinA(arg.x), FAdd(LinB(arg.x), Half))

\* sin_shift returned for a negative quotient n with both low bits set and
\* a remainder that is not zero.
C18_Witness ==
    /\ pc = "done" /\ call = "sin_shift"
    /\ ret.n < 0 /\ ret.n % 4 = 3
    /\ IsLin(ret.u0)
    /\ ret.u = DblNeg(ret.u0) /\ ret.tl.neg

\* C19: every lane of sin_shift_simd applies the two negations of scalar
\* sin_shift on the lane's value: the selects keyed off the low two bits of
\* the quotient widened to 64 bits negate u and the polynomial's value in
\* the cases where the scalar branches do, for quotients of both signs.
C19_LanesNegateAsScalar ==
    (pc = "done" /\ call = "sin_shift_simd") =>
        \A i \in Lanes :
           /\ \E r \in sin_shift(arg.xs[i]) :
                 /\ r.n = ret.ls[i].n
                 /\ r.u = ret.ls[i].u
                 /\ r.tl = ret.ls[i].tl
           /\ ret.ls[i].u = (IF I32Bit(ret.ls[i].n, 0) # 0 THEN DblNeg(ret.ls[i].u0)
                             ELSE ret.ls[i].u0)
           /\ ret.ls[i].tl.neg = (I32Bit(ret.ls[i].n, 1) # 0)

\* sin_shift_simd returned with a lane of negative odd quotient, its u
\* negated, and a lane of even quotient.
C19_Witness ==
    /\ pc = "done" /\ call = "sin_shift_simd"
    /\ \E i, j \in Lanes :
         /\ ret.ls[i].n < 0 /\ ret.ls[i].n % 2 = 1
         /\ IsLin(ret.ls[i].u0) /\ ret.ls[i].u = DblNeg(ret.ls[i].u0)
         /\ ret.ls[j].n % 2 = 0 /\ ret.ls[j].n # 0

----------------------------------------------------------------------------
(* atan: the range of the folded values *)

\* 0 <= v <= hi
AtanWithin(v, hi) == FLe(Zero, v) /\ FLe(v, hi) /\ ~SignBit(v)

\* C20: for every finite non-negative argument the three substitutions
\* s(v, k) = (v - 2^-k) / (1 + 2^-k v), k = 0, 1, 2, each followed by an
\* absolute value, give values in [0, 1], then [0, 0.5], then [0, 0.25], so
\* that the polynomial is evaluated in [0, 0.25] only.
C20_FoldedRanges ==
    /\ (pc = "done" /\ call = "atan") =>
          /\ AtanWithin(ret.x1, One)
          /\ AtanWithin(ret.x2, Half)
          /\ AtanWithin(ret.x3, F(1, 4))
    /\ (pc = "done" /\ call = "atan_simd") =>
          \A i \in Lanes :
             /\ AtanWithin(ret.ls[i].x1, One)
             /\ AtanWithin(ret.ls[i].x2, Half)
             /\ AtanWithin(ret.ls[i].x3, F(1, 4))

\* atan returned for a positive argument above 1 whose third fold lands on
\* the end 0.25 of the polynomial's domain.
C20_Witness ==
    /\ pc = "done" /\ call = "atan"
    /\ FLt(One, arg.x)
    /\ ret.x3 = F(1, 4)
    /\ FLt(Zero, ret.x1) /\ FLt(ret.x1, One)


----------------------------------------------------------------------------
(* atan: the walk back through the three folds *)

\* The constant a step added: the step's result less the running angle
\* with the sign of the step's substitution result.
StepConstant(p, running, s) == AngAdd(p, AngNeg(AngCopysign(running, s)))

\* c is pi/8: twice c is the angle of tangent 1.
IsEighthOfPi(c) == FLt(Zero, c.tan) /\ AngAdd(c, c) = Ang(One)

\* The three steps of a finished walk add the angles c3, c2, c1, in that
\* order, each onto the running angle with the sign of s3, s2, s1.
WalkAdds(r, c3, c2, c1) ==
    /\ r.p3 = AngAdd(AngCopysign(AtanPoly(r.x3), r.s3), c3)
    /\ r.p2 = AngAdd(AngCopysign(r.p3, r.s2), c2)
    /\ r.p1 = AngAdd(AngCopysign(r.p2, r.s1), c1)
    /\ StepConstant(r.p3, AtanPoly(r.x3), r.s3) = c3
    /\ StepConstant(r.p2, r.p3, r.s2) = c2
    /\ StepConstant(r.p1, r.p2, r.s1) = c1

\* C21 as stated: the constant of the third fold, atan(2^-2), is pi/8, the
\* other two are atan(2^-1) and atan(2^0) = pi/4, and the walk returns the
\* arctangent of the argument.
C21_ConstantsAsStated ==
    (pc = "done" /\ call = "atan") =>
        /\ IsEighthOfPi(StepConstant(ret.p3, AtanPoly(ret.x3), ret.s3))
        /\ StepConstant(ret.p2, ret.p3, ret.s2) = Ang(Half)
        /\ StepConstant(ret.p1, ret.p2, ret.s1) = Ang(One)
        /\ ret.p0 = Ang(arg.x)

\* C21, amended: atan walks the three folds in reverse, at each step
\* copying the sign of that step's substitution result onto the running
\* angle and adding that step's constant, the constants being atan(2^-2),
\* atan(2^-1) and atan(2^0) (the first is not pi/8: twice it has tangent
\* 8/15, not 1); then it copies the sign of the argument.  With an exact
\* polynomial the result is the arctangent of the argument, for every
\* finite argument, in atan and in every lane of atan_simd.
C21_ReverseWalk ==
    /\ (pc = "done" /\ call = "atan") =>
          /\ WalkAdds(ret, Ang(F(1, 4)), Ang(Half), Ang(One))
          /\ ~IsEighthOfPi(StepConstant(ret.p3, AtanPoly(ret.x3), ret.s3))
          /\ ret.p0 = Ang(arg.x)
    /\ (pc = "done" /\ call = "atan_simd") =>
          \A i \in Lanes :
             /\ WalkAdds(ret.ls[i], Ang(F(1, 4)), Ang(Half), Ang(One))
             /\ ret.ls[i].p0 = Ang(arg.xs[i])

\* atan returned for a negative argument whose walk copies a positive
\* sign at the first fold, a negative one at the second and a positive one
\* at the third, and the result is the arctangent of the argument.
C21_Witness ==
    /\ pc = "done" /\ call = "atan"
    /\ SignBit(arg.x) /\ ~IsZero(arg.x)
    /\ ~SignBit(ret.s1) /\ SignBit(ret.s2) /\ ~SignBit(ret.s3)
    /\ ~IsZero(ret.s3)
    /\ ret.p0 = Ang(arg.x)

=============================================================================
